---------------------------- MODULE Spec2Model ----------------------------
(***************************************************************************)
(* A model of exyzzy/lsys: the L-system rewriter (LSys), the turtle        *)
(* interpreter (DrawLSys), the drawing transforms of package drawing       *)
(* (Bounds, Translate, Scale, Flip, CenterWithMargin) and the render       *)
(* drivers (RenderSvg, RenderPng, RenderLsys, RenderAllLsys).              *)
(*                                                                         *)
(* Strings are sequences of one-character strings.  A float64 is an exact  *)
(* fraction <<n, d>> with d >= 0 in lowest terms; <<1,0>>, <<-1,0>> and    *)
(* <<0,0>> stand for +Inf, -Inf and NaN, so that a division by a zero      *)
(* extent gives what IEEE arithmetic gives.  Rounding is not represented.  *)
(***************************************************************************)
EXTENDS Integers, Sequences, FiniteSets, TLC

VARIABLES
    \* ---- a call of LSys
    axiom, rules, level, lsPc, result, err,
    \* ---- a run of DrawLSys
    lSys, onePath, theta0, angle, drwIn, idx, p, theta, stack, drw, dPc, hist,
    \* ---- a call of one transform of package drawing
    drawing, tb, tm, xfPc, xfOp, pb, pre,
    \* ---- a run of RenderAllLsys
    fractals, fi, phase, renders, batch

varsLSys   == <<axiom, rules, level, lsPc, result, err>>
varsDraw   == <<lSys, onePath, theta0, angle, drwIn, idx, p, theta, stack, drw, dPc, hist>>
varsXf     == <<drawing, tb, tm, xfPc, xfOp, pb, pre>>
varsRender == <<fractals, fi, phase, renders, batch>>
vars       == <<varsLSys, varsDraw, varsXf, varsRender>>

---------------------------------------------------------------------------
(* Bounds of the model: the coordinates of the points of a Drawing given  *)
(* to a transform (MaxCoord), the length of an axiom (MaxAxiomLen), the    *)
(* iteration count (MaxLevel), the length of a string given to DrawLSys    *)
(* (MaxSymLen) and the length of the catalog (MaxCatalog).                 *)

MaxCoord == 2

---------------------------------------------------------------------------
(* float64 *)

Abs(x) == IF x < 0 THEN -x ELSE x
Sgn(x) == IF x > 0 THEN 1 ELSE IF x < 0 THEN -1 ELSE 0

RECURSIVE Gcd(_, _)
Gcd(a, b) == IF b = 0 THEN a ELSE Gcd(b, a % b)

F64(n, d) ==
    IF d = 0 THEN <<Sgn(n), 0>>
    ELSE LET g == Gcd(Abs(n), Abs(d))
             s == IF d < 0 THEN -1 ELSE 1
         IN  <<(s * n) \div g, (s * d) \div g>>

Flt(k)    == <<k, 1>>
NaN       == <<0, 0>>
IsNaN(a)  == a = NaN

FNeg(a) == <<-a[1], a[2]>>
FAdd(a, b) ==
    IF a[2] = 0 /\ b[2] = 0
    THEN (IF a = b THEN a ELSE NaN)
    ELSE F64(a[1] * b[2] + b[1] * a[2], a[2] * b[2])
FSub(a, b) == FAdd(a, FNeg(b))
FMul(a, b) == F64(a[1] * b[1], a[2] * b[2])
FDiv(a, b) ==
    IF b[1] < 0 THEN F64(-(a[1] * b[2]), a[2] * (-b[1]))
    ELSE F64(a[1] * b[2], a[2] * b[1])
FLt(a, b) ==
    IF IsNaN(a) \/ IsNaN(b) THEN FALSE
    ELSE IF a[2] = 0 /\ b[2] = 0 THEN a[1] < b[1]
    ELSE a[1] * b[2] < b[1] * a[2]
FLe(a, b) == ~IsNaN(a) /\ ~IsNaN(b) /\ (a = b \/ FLt(a, b))

\* math.Min, math.Max: NaN if either is NaN, else the lesser (greater)
FMin(a, b) == IF IsNaN(a) \/ IsNaN(b) THEN NaN ELSE IF FLt(b, a) THEN b ELSE a
FMax(a, b) == IF IsNaN(a) \/ IsNaN(b) THEN NaN ELSE IF FLt(a, b) THEN b ELSE a

---------------------------------------------------------------------------
(* package drawing: types *)

FPoint(x, y) == [X |-> x, Y |-> y]
FRect(mn, mx) == [Min |-> mn, Max |-> mx]
ColorBLACK == "000000ff"

\* an image.Rectangle with integer corners
Rectangle(x0, y0, x1, y1) == [Min |-> [X |-> x0, Y |-> y0], Max |-> [X |-> x1, Y |-> y1]]

\* the zero value of Drawing: no paths
EmptyDrawing == << >>

MoveTo(d, point, color) == Append(d, [Points |-> <<point>>, Color |-> color])

LineTo(d, point) ==
    [d EXCEPT ![Len(d)].Points = Append(@, point)]

RectBounds(rect) ==
    FRect(FPoint(Flt(rect.Min.X), Flt(rect.Min.Y)),
          FPoint(Flt(rect.Max.X - 1), Flt(rect.Max.Y - 1)))

\* every point of every path, in the order Traverse visits them
RECURSIVE AllPoints(_)
AllPoints(d) ==
    IF d = << >> THEN << >> ELSE Head(d).Points \o AllPoints(Tail(d))

BoundsPt(pt, r) ==
    FRect(FPoint(FMin(r.Min.X, pt.X), FMin(r.Min.Y, pt.Y)),
          FPoint(FMax(r.Max.X, pt.X), FMax(r.Max.Y, pt.Y)))

RECURSIVE FoldBounds(_, _)
FoldBounds(pts, r) ==
    IF pts = << >> THEN r ELSE FoldBounds(Tail(pts), BoundsPt(Head(pts), r))

\* drawing.Paths[0].Points[0] is out of range: a run-time panic
BoundsPanics(d) == Len(d) = 0 \/ Len(d[1].Points) = 0

Bounds(d) ==
    LET first == d[1].Points[1]
    IN  FoldBounds(AllPoints(d), FRect(first, first))

TranslatePt(pt, delta) == FPoint(FAdd(pt.X, delta.X), FAdd(pt.Y, delta.Y))
ScalePt(pt, scalar) == FPoint(FMul(pt.X, scalar), FMul(pt.Y, scalar))
VFlipPt(pt, db) == FPoint(pt.X, FAdd(FSub(db.Max.Y, pt.Y), db.Min.Y))
HFlipPt(pt, db) == FPoint(FAdd(FSub(db.Max.X, pt.X), db.Min.X), pt.Y)

\* a call fpt(spt...) of a point function that writes the point
CallFn(fpt, pt, s) ==
    CASE fpt = "TranslatePt" -> TranslatePt(pt, s)
      [] fpt = "ScalePt"     -> ScalePt(pt, s)
      [] fpt = "VFlipPt"     -> VFlipPt(pt, s)
      [] fpt = "HFlipPt"     -> HFlipPt(pt, s)

\* Traverse with a point function only: fpt applied to every point, in order
Traverse(d, fpt, s) ==
    [i \in 1..Len(d) |->
        [d[i] EXCEPT !.Points = [j \in 1..Len(d[i].Points) |-> CallFn(fpt, d[i].Points[j], s)]]]

Translate(d, delta) == Traverse(d, "TranslatePt", delta)

Scale(d, scalar) == Traverse(d, "ScalePt", scalar)

Flip(d, vert) ==
    IF vert THEN Traverse(d, "VFlipPt", Bounds(d)) ELSE Traverse(d, "HFlipPt", Bounds(d))

\* CenterScale with the greater of the two fits
CenterScaleMax(db, tb0, tm0) ==
    LET w == FSub(tb0.Max.X, tb0.Min.X)
        h == FSub(tb0.Max.Y, tb0.Min.Y)
    IN  FMax(FDiv(FSub(w, FMul(FMul(tm0.X, Flt(2)), w)), FSub(db.Max.X, db.Min.X)),
             FDiv(FSub(h, FMul(FMul(tm0.Y, Flt(2)), h)), FSub(db.Max.Y, db.Min.Y)))

\* the scale factor of CenterWithMargin (drawing.go line 262)
CenterScale(db, tb0, tm0) ==
    LET w == FSub(tb0.Max.X, tb0.Min.X)
        h == FSub(tb0.Max.Y, tb0.Min.Y)
    IN  FMin(FDiv(FSub(w, FMul(FMul(tm0.X, Flt(2)), w)), FSub(db.Max.X, db.Min.X)),
             FDiv(FSub(h, FMul(FMul(tm0.Y, Flt(2)), h)), FSub(db.Max.Y, db.Min.Y)))

\* lines 267-270: the bounds scaled
ScaledBounds(db, scale) ==
    FRect(FPoint(FMul(db.Min.X, scale), FMul(db.Min.Y, scale)),
          FPoint(FMul(db.Max.X, scale), FMul(db.Max.Y, scale)))

\* lines 271-274: what takes the center of db to the center of tb0
CenterDelta(db, tb0) ==
    FPoint(FSub(FDiv(FAdd(tb0.Max.X, tb0.Min.X), Flt(2)),
                FDiv(FAdd(db.Max.X, db.Min.X), Flt(2))),
           FSub(FDiv(FAdd(tb0.Max.Y, tb0.Min.Y), Flt(2)),
                FDiv(FAdd(db.Max.Y, db.Min.Y), Flt(2))))

\* lines 265-276, given the bounds and the scale factor
ScaleAndCenter(d, db, scale, tb0) ==
    Translate(Scale(d, scale), CenterDelta(ScaledBounds(db, scale), tb0))

\* lines 262-276, given the bounds
CenterFrom(d, db, tb0, tm0) == ScaleAndCenter(d, db, CenterScale(db, tb0, tm0), tb0)

CenterWithMargin(d, tb0, tm0) == CenterFrom(d, Bounds(d), tb0, tm0)

---------------------------------------------------------------------------
(* package lsys: LSys *)

MaxAxiomLen == 2
MaxLevel == 2

Nil == << >>

Alphabet == {"F", "X", "-", "+", "[", "]", " ", "\t"}

RECURSIVE SeqsUpTo(_, _)
SeqsUpTo(S, n) ==
    IF n = 0 THEN {<< >>}
    ELSE LET shorter == SeqsUpTo(S, n - 1)
         IN  shorter \cup {Append(q, x) : q \in shorter, x \in S}

NoRules == [c \in {} |-> << >>]
KochRules == [c \in {"F"} |-> <<"F", "+", "F", "-", "-", "F", "+", "F">>]
PlantRules == ("F" :> <<"F", "[", "+", "X", "]">>) @@ ("X" :> <<"F", " ", "X">>)
TabRules == ("F" :> <<"\t", "F">>) @@ ("\t" :> <<"X", "\t">>) @@ ("X" :> << >>)
SpaceRules == ("F" :> <<"F", " ", "-">>) @@ (" " :> <<"X">>)
DeadEndRules == [c \in {"F"} |-> <<"F", "Y">>]
RuleMaps == {NoRules, KochRules, PlantRules, TabRules, SpaceRules, DeadEndRules}

\* the switch of lines 20-32 with the control symbols dropped like a space
LSysCharDropsControl(v, rls) ==
    IF v \in {"-", "+", "[", "]", " "} THEN [ok |-> TRUE, ns |-> << >>, sym |-> ""]
    ELSE IF v \notin DOMAIN rls THEN [ok |-> FALSE, ns |-> << >>, sym |-> v]
    ELSE [ok |-> TRUE, ns |-> rls[v], sym |-> ""]

\* the switch of lines 20-32 on one character v: what it appends to ns, or
\* the character that has no rule
LSysChar(v, rls) ==
    IF v \in {"-", "+", "[", "]"} THEN [ok |-> TRUE, ns |-> <<v>>, sym |-> ""]
    ELSE IF v = " " THEN [ok |-> TRUE, ns |-> << >>, sym |-> ""]
    ELSE IF v \notin DOMAIN rls THEN [ok |-> FALSE, ns |-> << >>, sym |-> v]
    ELSE [ok |-> TRUE, ns |-> rls[v], sym |-> ""]

\* the inner loop (lines 19-33) over s[lo..hi]: what it appends to ns, or
\* the first character that has no rule.  The loop goes left to right; its
\* result over a range is that of the left half followed by that of the
\* right half, which is how it is computed here.
RECURSIVE LSysRange(_, _, _, _)
LSysRange(s, rls, lo, hi) ==
    IF lo > hi THEN [ok |-> TRUE, ns |-> << >>, sym |-> ""]
    ELSE IF lo = hi THEN LSysChar(s[lo], rls)
    ELSE LET mid   == (lo + hi) \div 2
             left  == LSysRange(s, rls, lo, mid)
             right == LSysRange(s, rls, mid + 1, hi)
         IN  IF ~left.ok THEN left
             ELSE IF ~right.ok THEN right
             ELSE [ok |-> TRUE, ns |-> left.ns \o right.ns, sym |-> ""]

\* one pass (lines 18-34): ns, or the character that has no rule
LSysPass(s, rls) == LSysRange(s, rls, 1, Len(s))

\* the early return of line 29: the named result is still its zero value
LSysFailKeepsString(s, sym) == [result |-> s, err |-> <<"no rule for: ", sym>>]
LSysFail(s, sym) == [result |-> << >>, err |-> <<"no rule for: ", sym>>]

\* the loop condition of line 17
LSysLoopCondInclusive(i, lvl) == i <= lvl
LSysLoopCond(i, lvl) == i < lvl

\* the outer loop (lines 17-35) from iteration i with current string s
RECURSIVE LSysLoop(_, _, _, _)
LSysLoop(s, rls, i, lvl) ==
    IF ~LSysLoopCond(i, lvl) THEN [result |-> s, err |-> Nil]
    ELSE LET r == LSysPass(s, rls)
         IN  IF ~r.ok THEN LSysFail(s, r.sym)
             ELSE LSysLoop(r.ns, rls, i + 1, lvl)

LSys(ax, rls, lvl) == LSysLoop(ax, rls, 0, lvl)

---------------------------------------------------------------------------
(* package lsys: DrawLSys *)

MaxSymLen == 4

\* math.Cos and math.Sin of ToRadians(th), for headings that are multiples
\* of a right angle, as their exact values (math.Cos(Pi/2) is 6.1e-17 in
\* float64, taken as 0 here)
Cos(th) == CASE th % 360 = 0 -> Flt(1) [] th % 360 = 180 -> Flt(-1) [] OTHER -> Flt(0)
Sin(th) == CASE th % 360 = 90 -> Flt(1) [] th % 360 = 270 -> Flt(-1) [] OTHER -> Flt(0)

PointFromTheta(p0, th, length) ==
    FPoint(FAdd(FMul(length, Cos(th)), p0.X), FAdd(FMul(length, Sin(th)), p0.Y))

StackItem(pt, th) == [Point |-> pt, Theta |-> th]

Origin == FPoint(Flt(0), Flt(0))

\* The locals of DrawLSys as one record: p, theta, stack, the Drawing behind
\* drw, and whether the run has panicked.

\* lines 47-49
DrawStart(d, th, color) ==
    [p |-> Origin, theta |-> th, stack |-> << >>,
     drw |-> MoveTo(d, Origin, color), panic |-> FALSE]

\* case 'F'
CaseDraw(t) ==
    LET np == PointFromTheta(t.p, t.theta, Flt(1))
    IN  [t EXCEPT !.p = np, !.drw = LineTo(@, np)]

\* case '-'
CaseLeft(t, ang) == [t EXCEPT !.theta = @ - ang]

\* case '+'
CaseRight(t, ang) == [t EXCEPT !.theta = @ + ang]

\* case 'f' with the onePath test dropped
CaseMoveAlwaysNewPath(t, color, one) ==
    LET np == PointFromTheta(t.p, t.theta, Flt(1))
    IN  [t EXCEPT !.p = np, !.drw = MoveTo(@, np, color)]

\* case 'f'
CaseMove(t, color, one) ==
    LET np == PointFromTheta(t.p, t.theta, Flt(1))
    IN  [t EXCEPT !.p = np, !.drw = IF ~one THEN MoveTo(@, np, color) ELSE @]

\* case '['
CasePush(t) == [t EXCEPT !.stack = Append(@, StackItem(t.p, t.theta))]

\* case ']' taking the oldest item instead of the last
CasePopOldest(t, color, one) ==
    IF Len(t.stack) = 0 THEN [t EXCEPT !.panic = TRUE]
    ELSE LET se == t.stack[1]
         IN  [t EXCEPT !.p = se.Point,
                       !.drw = IF ~one THEN MoveTo(@, se.Point, color) ELSE @,
                       !.theta = se.Theta,
                       !.stack = Tail(@)]

\* case ']': stack[n] with n = len(stack)-1 is out of range when the stack
\* is empty, a run-time panic
CasePop(t, color, one) ==
    IF Len(t.stack) = 0 THEN [t EXCEPT !.panic = TRUE]
    ELSE LET se == t.stack[Len(t.stack)]
         IN  [t EXCEPT !.p = se.Point,
                       !.drw = IF ~one THEN MoveTo(@, se.Point, color) ELSE @,
                       !.theta = se.Theta,
                       !.stack = SubSeq(@, 1, Len(@) - 1)]

\* the switch of lines 51-76; a symbol with no case changes nothing
DrawSymbol(t, v, ang, color, one) ==
    CASE v = "F" -> CaseDraw(t)
      [] v = "-" -> CaseLeft(t, ang)
      [] v = "+" -> CaseRight(t, ang)
      [] v = "f" -> CaseMove(t, color, one)
      [] v = "[" -> CasePush(t)
      [] v = "]" -> CasePop(t, color, one)
      [] OTHER   -> t

\* the loop of lines 50-77 over the rest of the string
RECURSIVE DrawLoop(_, _, _, _, _)
DrawLoop(t, str, ang, color, one) ==
    IF str = << >> \/ t.panic THEN t
    ELSE DrawLoop(DrawSymbol(t, Head(str), ang, color, one), Tail(str), ang, color, one)

\* DrawLSys as a whole: the locals when it returns (or panics)
DrawLSys(d, str, th, ang, color, one) ==
    DrawLoop(DrawStart(d, th, color), str, ang, color, one)

---------------------------------------------------------------------------
(* RenderSvg, RenderPng, RenderLsys *)

\* An entry of the log of what a render did, in order
Op(name, args) == [op |-> name, args |-> args]

Margin10 == FPoint(F64(1, 10), F64(1, 10))
DefaultRect == Rectangle(0, 0, 2000, 2000)

\* A render's outcome: the Drawing as left, the log, the returned string and
\* error, and whether it panicked instead of returning.  io says which of
\* os.Create, the WriteString calls and png.Encode succeed.
Returned(d, ops, str, e) == [drawing |-> d, ops |-> ops, str |-> str, err |-> e, panic |-> FALSE]
Panicked(d, ops) == [drawing |-> d, ops |-> ops, str |-> << >>, err |-> Nil, panic |-> TRUE]

Summary(filePath, d) == filePath \o <<": ", Len(d), " paths">>

\* rect is << >> for nil and <<r>> for a pointer to r
RectOrDefault(rect) == IF rect = << >> THEN DefaultRect ELSE rect[1]

FlipOp == Op("Flip", <<TRUE>>)
CenterOp(rct) == Op("CenterWithMargin", <<RectBounds(rct), Margin10>>)

\* RenderSvg from os.Create on (lines 86-95), d being the Drawing as
\* flipped and centered
SvgWrite(d, rct, filePath, io) ==
    IF ~io.create
    THEN Returned(d, <<FlipOp, CenterOp(rct), Op("os.Create", filePath)>>,
                  << >>, <<"os.Create: ">> \o filePath)
    ELSE IF ~io.write
    THEN Panicked(d, <<FlipOp, CenterOp(rct), Op("os.Create", filePath),
                       Op("DrawToSvg", <<rct>>)>>)
    ELSE Returned(d, <<FlipOp, CenterOp(rct), Op("os.Create", filePath),
                       Op("DrawToSvg", <<rct>>)>>,
                  Summary(filePath, d), Nil)

RenderSvgRect(d, rct, filePath, io) ==
    IF BoundsPanics(d) THEN Panicked(d, <<FlipOp>>)
    ELSE SvgWrite(CenterWithMargin(Flip(d, TRUE), RectBounds(rct), Margin10),
                  rct, filePath, io)

RenderSvg(d, rect, filePath, io) == RenderSvgRect(d, RectOrDefault(rect), filePath, io)

\* RenderPng from DrawToImage on (lines 61-72), d being the Drawing as
\* flipped and centered and xf the log so far
PngWrite(d, xf, filePath, io) ==
    IF ~io.create
    THEN Returned(d, xf \o <<Op("DrawToImage", << >>), Op("os.Create", filePath)>>,
                  filePath, <<"os.Create: ">> \o filePath)
    ELSE IF ~io.encode
    THEN Returned(d, xf \o <<Op("DrawToImage", << >>), Op("os.Create", filePath),
                             Op("png.Encode", << >>)>>,
                  filePath, <<"png.Encode: ">> \o filePath)
    ELSE Returned(d, xf \o <<Op("DrawToImage", << >>), Op("os.Create", filePath),
                             Op("png.Encode", << >>)>>,
                  Summary(filePath, d), Nil)

\* RenderPng with the two transforms in the other order
RenderPngCenterFirst(d, rct, filePath, io) ==
    IF BoundsPanics(d) THEN Panicked(d, <<Op("image.NewRGBA", <<rct>>), CenterOp(rct)>>)
    ELSE PngWrite(Flip(CenterWithMargin(d, RectBounds(rct), Margin10), TRUE),
                  <<Op("image.NewRGBA", <<rct>>), CenterOp(rct), FlipOp>>, filePath, io)

RenderPngRect(d, rct, filePath, io) ==
    IF BoundsPanics(d) THEN Panicked(d, <<Op("image.NewRGBA", <<rct>>), FlipOp>>)
    ELSE PngWrite(CenterWithMargin(Flip(d, TRUE), RectBounds(rct), Margin10),
                  <<Op("image.NewRGBA", <<rct>>), FlipOp, CenterOp(rct)>>, filePath, io)

RenderPng(d, rect, filePath, io) == RenderPngRect(d, RectOrDefault(rect), filePath, io)

\* What RenderLsys was asked for and the Drawing it declared (var drw)
Asked(fractal, rect, vector) ==
    [name |-> fractal.Name, vector |-> vector, rect |-> rect, start |-> EmptyDrawing]

\* lines 96-104: r is the outcome of RenderSvg or RenderPng; its string is
\* printed and its error returned
RenderDone(ask, r) ==
    ask @@ [r EXCEPT !.ops = <<Op("LSys", << >>), Op("DrawLSys", << >>)>> \o @]
        @@ [printed |-> IF r.panic THEN << >> ELSE <<r.str>>]

\* lines 95-104: t is DrawLSys's outcome
RenderDrawn(fractal, t, rect, vector, io) ==
    IF t.panic
    THEN Asked(fractal, rect, vector)
             @@ Panicked(t.drw, <<Op("LSys", << >>), Op("DrawLSys", << >>)>>)
             @@ [printed |-> << >>]
    ELSE RenderDone(Asked(fractal, rect, vector),
                    IF vector
                    THEN RenderSvg(t.drw, <<rect>>, <<"images/", fractal.Name, ".svg">>, io)
                    ELSE RenderPng(t.drw, <<rect>>, <<"images/", fractal.Name, ".png">>, io))

\* lines 92-104: s is LSys's outcome
RenderRewritten(fractal, s, color, rect, vector, io) ==
    IF s.err # Nil
    THEN Asked(fractal, rect, vector)
             @@ Returned(EmptyDrawing, <<Op("LSys", << >>)>>, << >>, s.err)
             @@ [printed |-> << >>]
    ELSE RenderDrawn(fractal,
                     DrawLSys(EmptyDrawing, s.result, fractal.Theta, fractal.Angle,
                              color, fractal.OnePath),
                     rect, vector, io)

\* RenderLsys: the outcome, with what it was asked for, the Drawing it
\* started from and the lines it printed
RenderLsys(fractal, color, rect, vector, io) ==
    RenderRewritten(fractal, LSys(fractal.Axiom, fractal.Rules, fractal.Levels),
                    color, rect, vector, io)

\* the test of lines 112 and 116 with the error ignored
AbortsBatchNever(e) == FALSE

\* the test of lines 112 and 116
AbortsBatch(e) == e # Nil

---------------------------------------------------------------------------
(* Each specification runs one part of the program; the variables of the   *)
(* other parts keep these values.                                          *)

IdleLSys ==
    /\ axiom = << >> /\ rules = NoRules /\ level = 0
    /\ lsPc = "idle" /\ result = << >> /\ err = Nil

IdleDraw ==
    /\ lSys = << >> /\ onePath = FALSE /\ theta0 = 0 /\ angle = 0
    /\ drwIn = EmptyDrawing /\ idx = 1 /\ p = Origin /\ theta = 0
    /\ stack = << >> /\ drw = EmptyDrawing /\ dPc = "idle" /\ hist = << >>

IdleXf ==
    /\ drawing = EmptyDrawing /\ tb = FRect(Origin, Origin) /\ tm = Origin
    /\ xfPc = "idle" /\ xfOp = "none" /\ pb = FRect(Origin, Origin)
    /\ pre = EmptyDrawing

IdleRender ==
    /\ fractals = << >> /\ fi = 1 /\ phase = "idle" /\ renders = << >>
    /\ batch = [state |-> "idle", err |-> Nil]

---------------------------------------------------------------------------
(* SpecLSys: one call of LSys on an axiom, a rule mapping and a level *)

InitLSys ==
    /\ axiom \in SeqsUpTo(Alphabet, MaxAxiomLen)
    /\ rules \in RuleMaps
    /\ level \in 0..MaxLevel
    /\ lsPc = "call" /\ result = << >> /\ err = Nil
    /\ IdleDraw /\ IdleXf /\ IdleRender

CallLSys ==
    /\ lsPc = "call"
    /\ LET r == LSys(axiom, rules, level)
       IN  result' = r.result /\ err' = r.err
    /\ lsPc' = "returned"
    /\ UNCHANGED <<axiom, rules, level, varsDraw, varsXf, varsRender>>

NextLSys == CallLSys

SpecLSys == InitLSys /\ [][NextLSys]_vars

---------------------------------------------------------------------------
(* SpecDraw: one run of DrawLSys, one symbol of the string per step *)

DrawAlphabet == {"F", "f", "+", "-", "[", "]", "X"}

OldPath == [Points |-> <<FPoint(Flt(1), Flt(1))>>, Color |-> ColorBLACK]

Turtle == [p |-> p, theta |-> theta, stack |-> stack, drw |-> drw, panic |-> FALSE]

\* the locals after a step; hist records the position and heading each
\* symbol was read at
Becomes(t) ==
    /\ p' = t.p /\ theta' = t.theta /\ stack' = t.stack /\ drw' = t.drw
    /\ dPc' = IF t.panic THEN "panic" ELSE "loop"
    /\ idx' = IF t.panic THEN idx ELSE idx + 1
    /\ hist' = Append(hist, [p |-> p, theta |-> theta])
    /\ UNCHANGED <<lSys, onePath, theta0, angle, drwIn, varsLSys, varsXf, varsRender>>

AtSymbol(S) == dPc = "loop" /\ idx <= Len(lSys) /\ lSys[idx] \in S

InitDraw ==
    /\ lSys \in SeqsUpTo(DrawAlphabet, MaxSymLen)
    /\ onePath \in BOOLEAN
    /\ theta0 \in {0, 90}
    /\ angle = 90
    /\ drwIn \in {EmptyDrawing, <<OldPath>>}
    /\ idx = 1 /\ p = Origin /\ theta = theta0 /\ stack = << >>
    /\ drw = drwIn /\ dPc = "call" /\ hist = << >>
    /\ IdleLSys /\ IdleXf /\ IdleRender

DrawEnter ==
    /\ dPc = "call"
    /\ LET t == DrawStart(drw, theta0, ColorBLACK)
       IN  p' = t.p /\ theta' = t.theta /\ stack' = t.stack /\ drw' = t.drw
    /\ dPc' = "loop"
    /\ UNCHANGED <<lSys, onePath, theta0, angle, drwIn, idx, hist,
                   varsLSys, varsXf, varsRender>>

StepDraw  == AtSymbol({"F"}) /\ Becomes(CaseDraw(Turtle))
StepLeft  == AtSymbol({"-"}) /\ Becomes(CaseLeft(Turtle, angle))
StepRight == AtSymbol({"+"}) /\ Becomes(CaseRight(Turtle, angle))
StepMove  == AtSymbol({"f"}) /\ Becomes(CaseMove(Turtle, ColorBLACK, onePath))
StepPush  == AtSymbol({"["}) /\ Becomes(CasePush(Turtle))
StepPop   == AtSymbol({"]"}) /\ Becomes(CasePop(Turtle, ColorBLACK, onePath))
StepOther == AtSymbol(DrawAlphabet \ {"F", "-", "+", "f", "[", "]"}) /\ Becomes(Turtle)

DrawReturn ==
    /\ dPc = "loop" /\ idx > Len(lSys)
    /\ dPc' = "returned"
    /\ UNCHANGED <<lSys, onePath, theta0, angle, drwIn, idx, p, theta, stack, drw, hist,
                   varsLSys, varsXf, varsRender>>

NextDraw ==
    \/ DrawEnter
    \/ StepDraw
    \/ StepLeft
    \/ StepRight
    \/ StepMove
    \/ StepPush
    \/ StepPop
    \/ StepOther
    \/ DrawReturn

SpecDraw == InitDraw /\ [][NextDraw]_vars

---------------------------------------------------------------------------
(* SpecXf: one call of Bounds, Flip or CenterWithMargin on a Drawing *)

Points == {FPoint(Flt(x), Flt(y)) : x, y \in 0..MaxCoord}

\* the number of points of each path
Shapes == {<< >>, <<0>>, <<1>>, <<2>>, <<1, 1>>, <<2, 1>>, <<0, 1>>, <<1, 0>>}

RECURSIVE DrawingsOfShape(_)
DrawingsOfShape(sh) ==
    IF sh = << >> THEN {<< >>}
    ELSE {<<[Points |-> pts, Color |-> ColorBLACK]>> \o rest :
             pts \in [1..Head(sh) -> Points], rest \in DrawingsOfShape(Tail(sh))}

Drawings == UNION {DrawingsOfShape(sh) : sh \in Shapes}

Targets == {RectBounds(Rectangle(0, 0, 11, 11)), RectBounds(Rectangle(2, 1, 7, 13))}

Margins == {FPoint(F64(1, 10), F64(1, 10)), FPoint(F64(1, 4), F64(2, 5)),
            FPoint(F64(6, 5), F64(1, 10))}

InitXf ==
    /\ drawing \in Drawings
    /\ tb \in Targets
    /\ tm \in Margins
    /\ xfPc = "ready" /\ xfOp = "none" /\ pb = FRect(Origin, Origin)
    /\ pre = drawing
    /\ IdleLSys /\ IdleDraw /\ IdleRender

CallBounds ==
    /\ xfPc = "ready"
    /\ xfOp' = "Bounds"
    /\ IF BoundsPanics(drawing)
       THEN xfPc' = "panic" /\ pb' = pb
       ELSE xfPc' = "returned" /\ pb' = Bounds(drawing)
    /\ UNCHANGED <<drawing, tb, tm, pre, varsLSys, varsDraw, varsRender>>

CallFlip ==
    /\ xfPc = "ready"
    /\ \E vert \in BOOLEAN :
        /\ xfOp' = IF vert THEN "Flip(true)" ELSE "Flip(false)"
        /\ IF BoundsPanics(drawing)
           THEN xfPc' = "panic" /\ drawing' = drawing
           ELSE xfPc' = "returned" /\ drawing' = Flip(drawing, vert)
    /\ UNCHANGED <<tb, tm, pb, pre, varsLSys, varsDraw, varsRender>>

CallCenterWithMargin ==
    /\ xfPc = "ready"
    /\ xfOp' = "CenterWithMargin"
    /\ IF BoundsPanics(drawing)
       THEN xfPc' = "panic" /\ drawing' = drawing
       ELSE xfPc' = "returned" /\ drawing' = CenterWithMargin(drawing, tb, tm)
    /\ UNCHANGED <<tb, tm, pb, pre, varsLSys, varsDraw, varsRender>>

NextXf ==
    \/ CallBounds
    \/ CallFlip
    \/ CallCenterWithMargin

SpecXf == InitXf /\ [][NextXf]_vars

---------------------------------------------------------------------------
(* Properties of LSys (SpecLSys) *)

ControlSymbols == {"-", "+", "[", "]"}
Whitespace == {" ", "\t"}

\* what one character becomes in a pass that drops the characters of ws
Image(c, rls, ws) ==
    IF c \in ControlSymbols THEN <<c>>
    ELSE IF c \in ws THEN << >>
    ELSE IF c \in DOMAIN rls THEN rls[c] ELSE << >>

\* the images of s[lo..hi], one after the other
RECURSIVE Images(_, _, _, _, _)
Images(s, rls, ws, lo, hi) ==
    IF lo > hi THEN << >>
    ELSE IF lo = hi THEN Image(s[lo], rls, ws)
    ELSE Images(s, rls, ws, lo, (lo + hi) \div 2)
             \o Images(s, rls, ws, (lo + hi) \div 2 + 1, hi)

\* n successive passes over s
RECURSIVE Passes(_, _, _, _)
Passes(s, rls, n, ws) ==
    IF n = 0 THEN s
    ELSE Passes(Images(s, rls, ws, 1, Len(s)), rls, n - 1, ws)

KochLevel1 == <<"F", "+", "F", "-", "-", "F", "+", "F">>

\* C1 as stated: when no lookup fails, level >= 1 passes give the string in
\* which controls are copied, every whitespace character (space, tab) is
\* dropped and every other character is replaced by its rule string.
C1_AllWhitespaceDropped ==
    (lsPc = "returned" /\ err = Nil /\ level >= 1)
        => result = Passes(axiom, rules, level, Whitespace)

\* C1 amended: when no lookup fails, level >= 1 passes give the string in
\* which controls are copied, the space character alone is dropped and
\* every other character (a tab too) is replaced by its rule string, not
\* re-expanded within the pass; axiom "F" under the Koch rule gives
\* "F+F--F+F" after one pass.
C1_PassesDropSpaceOnly ==
    (lsPc = "returned" /\ err = Nil /\ level >= 1)
        => /\ result = Passes(axiom, rules, level, {" "})
           /\ (axiom = <<"F">> /\ rules = KochRules /\ level = 1) => result = KochLevel1

C1_Witness ==
    /\ lsPc = "returned" /\ err = Nil /\ level = 2
    /\ axiom = <<"F", " ">> /\ rules = TabRules
    /\ result = <<"X", "\t", "\t", "F">>

\* a character the rewriter has no way to handle
Undefined(c, rls) == c \notin ControlSymbols \cup Whitespace /\ c \notin DOMAIN rls

MeetsUndefined(s, rls) == \E i \in 1..Len(s) : Undefined(s[i], rls)

\* C2: a pass that meets a character that is neither a control symbol nor
\* whitespace and has no rule makes LSys return an error, and every call
\* that returns an error returns the empty string with it, the error naming
\* a character that has no rule.
C2_UndefinedSymbolNoPartialResult ==
    lsPc = "returned" =>
        /\ (\E n \in 0..(level - 1) : MeetsUndefined(Passes(axiom, rules, n, {" "}), rules))
               => err # Nil
        /\ err # Nil =>
               /\ result = << >>
               /\ err[2] \notin DOMAIN rules
               /\ err[2] \notin ControlSymbols \cup {" "}

C2_Witness ==
    /\ lsPc = "returned" /\ axiom = <<"X">> /\ rules = NoRules /\ level = 1
    /\ err = <<"no rule for: ", "X">> /\ result = << >>

\* C3: with 0 iterations LSys returns the axiom, character for character,
\* and no error, whatever the rule mapping.
C3_ZeroIterationsIsAxiom ==
    (lsPc = "returned" /\ level = 0) => (result = axiom /\ err = Nil)

C3_Witness ==
    /\ lsPc = "returned" /\ level = 0 /\ rules = NoRules
    /\ axiom = <<"X", "\t">> /\ result = <<"X", "\t">> /\ err = Nil

---------------------------------------------------------------------------
(* Properties of DrawLSys (SpecDraw) *)

\* the number of symbols c among the first n of the string
RECURSIVE Count(_, _)
Count(c, n) == IF n = 0 THEN 0 ELSE Count(c, n - 1) + (IF lSys[n] = c THEN 1 ELSE 0)

\* the symbols read so far, the one that panicked included
Read == IF dPc = "panic" THEN idx ELSE idx - 1

Running == dPc \in {"loop", "returned", "panic"}

\* a ']' has been read while the stack was empty
PoppedEmpty == \E k \in 1..Read : lSys[k] = "]" /\ Count("[", k - 1) = Count("]", k - 1)
               /\ \A j \in 1..(k - 1) : Count("]", j) <= Count("[", j)

\* C4: a ']' read while the branch stack is empty ends the interpretation
\* with a StackUnderflow error returned to the caller.
C4_StackUnderflowReturned ==
    (Running /\ PoppedEmpty) => dPc = "StackUnderflow"

\* C5: a run from an empty Drawing that never pops an empty stack returns
\* a Drawing of exactly 1 Path when onePath holds and of 1 + #'f' + #']'
\* Paths otherwise; its first Path starts at the origin and every Path has
\* at least one point.
C5_PathCount ==
    (dPc = "returned" /\ drwIn = EmptyDrawing) =>
        /\ Len(drw) = IF onePath THEN 1
                      ELSE 1 + Count("f", Len(lSys)) + Count("]", Len(lSys))
        /\ drw[1].Points[1] = Origin
        /\ \A i \in 1..Len(drw) : Len(drw[i].Points) >= 1

C5_Witness ==
    /\ dPc = "returned" /\ drwIn = EmptyDrawing /\ ~onePath
    /\ lSys = <<"[", "f", "]", "F">> /\ Len(drw) = 3

\* the index of the '[' that the ']' at index k closes
RECURSIVE MatchFrom(_, _)
MatchFrom(j, depth) ==
    IF j = 0 THEN 0
    ELSE IF lSys[j] = "[" THEN (IF depth = 0 THEN j ELSE MatchFrom(j - 1, depth - 1))
    ELSE IF lSys[j] = "]" THEN MatchFrom(j - 1, depth + 1)
    ELSE MatchFrom(j - 1, depth)
Match(k) == MatchFrom(k - 1, 0)

Balanced ==
    /\ Count("[", Len(lSys)) = Count("]", Len(lSys))
    /\ \A j \in 1..Len(lSys) : Count("]", j) <= Count("[", j)

\* C6: while the run has not failed, the stack depth after a prefix is
\* #'[' - #']' of the prefix; right after a ']' the position and heading
\* are those the matching '[' was read at; the stack is empty when a
\* balanced string has been read.
C6_StackIsLIFO ==
    dPc \in {"loop", "returned"} =>
        /\ Len(stack) = Count("[", idx - 1) - Count("]", idx - 1)
        /\ (idx > 1 /\ lSys[idx - 1] = "]") =>
               /\ Match(idx - 1) > 0
               /\ p = hist[Match(idx - 1)].p
               /\ theta = hist[Match(idx - 1)].theta
        /\ (dPc = "returned" /\ Balanced) => stack = << >>

C6_Witness ==
    /\ dPc = "loop" /\ idx = 5 /\ lSys = <<"[", "+", "F", "]">>
    /\ p = Origin /\ theta = theta0 /\ stack = << >>
    /\ hist[4].p # Origin /\ hist[4].theta = theta0 + angle

---------------------------------------------------------------------------
(* Properties of the transforms (SpecXf) *)

Called == xfPc \in {"returned", "panic"}

\* zero paths, or paths that hold no point
NoPoints(d) == AllPoints(d) = << >>

Width(r) == FSub(r.Max.X, r.Min.X)
Height(r) == FSub(r.Max.Y, r.Min.Y)

NonDegenerate(d) ==
    /\ ~BoundsPanics(d)
    /\ Width(Bounds(d)) # Flt(0)
    /\ Height(Bounds(d)) # Flt(0)

MarginInRange(m) ==
    /\ FLt(Flt(0), m.X) /\ FLt(m.X, F64(1, 2))
    /\ FLt(Flt(0), m.Y) /\ FLt(m.Y, F64(1, 2))

Inside(r, outer) ==
    /\ FLe(outer.Min.X, r.Min.X) /\ FLe(r.Max.X, outer.Max.X)
    /\ FLe(outer.Min.Y, r.Min.Y) /\ FLe(r.Max.Y, outer.Max.Y)

SameCenter(r, q) ==
    /\ FAdd(r.Min.X, r.Max.X) = FAdd(q.Min.X, q.Max.X)
    /\ FAdd(r.Min.Y, r.Max.Y) = FAdd(q.Min.Y, q.Max.Y)

\* one factor k takes every difference of two points of old to the
\* difference of the same two points of new, in X and in Y
UniformlyScaled(old, new) ==
    LET k  == FDiv(Width(Bounds(new)), Width(Bounds(old)))
        po == AllPoints(old)
        pn == AllPoints(new)
    IN  /\ Len(po) = Len(pn)
        /\ \A i, j \in 1..Len(po) :
               /\ FSub(pn[i].X, pn[j].X) = FMul(k, FSub(po[i].X, po[j].X))
               /\ FSub(pn[i].Y, pn[j].Y) = FMul(k, FSub(po[i].Y, po[j].Y))

\* C8: after CenterWithMargin of a Drawing whose bounding box has non-zero
\* width and height, with margin fractions in (0, 0.5), the bounding box
\* lies inside the target rectangle, has the target's center, and every
\* point was scaled by one factor in X and Y.
C8_CenteredInsideTarget ==
    (xfPc = "returned" /\ xfOp = "CenterWithMargin"
        /\ NonDegenerate(pre) /\ MarginInRange(tm))
    => /\ Inside(Bounds(drawing), tb)
       /\ SameCenter(Bounds(drawing), tb)
       /\ UniformlyScaled(pre, drawing)

C8_Witness ==
    /\ xfPc = "returned" /\ xfOp = "CenterWithMargin"
    /\ NonDegenerate(pre) /\ MarginInRange(tm)
    /\ Len(pre) = 2 /\ Len(AllPoints(pre)) = 3
    /\ Width(Bounds(pre)) # Height(Bounds(pre))
    /\ drawing # pre

\* C10: Bounds, Flip and CenterWithMargin called on a Drawing with zero
\* paths, or whose paths hold zero points, fail with an EmptyDrawing error.
C10_EmptyDrawingError ==
    (Called /\ NoPoints(pre)) => xfPc = "EmptyDrawing"

---------------------------------------------------------------------------
(* SpecRender: RenderAllLsys over a catalog, one call of RenderLsys per step *)

MaxCatalog == 2

LFractal(name, ax, rls, levels, th, ang, one) ==
    [Name |-> name, Axiom |-> ax, Rules |-> rls, Levels |-> levels,
     Theta |-> th, Angle |-> ang, OnePath |-> one]

\* the catalog: presets that render, one whose rewrite meets a symbol with
\* no rule, one whose string closes a branch it never opened
Presets ==
    { LFractal("koch", <<"F">>, KochRules, 1, 0, 90, TRUE),
      LFractal("plant", <<"F">>, PlantRules, 2, 90, 90, FALSE),
      LFractal("line", <<"F">>, NoRules, 0, 0, 90, FALSE),
      LFractal("deadend", <<"F">>, DeadEndRules, 2, 0, 90, FALSE),
      LFractal("unbalanced", <<"F", "+", "F", "]">>, NoRules, 0, 0, 90, FALSE) }

Rect1024 == Rectangle(0, 0, 1024, 1024)

IoOutcomes == [create : BOOLEAN, write : BOOLEAN, encode : BOOLEAN]

InitRender ==
    /\ fractals \in SeqsUpTo(Presets, MaxCatalog)
    /\ fi = 1 /\ phase = "vector" /\ renders = << >>
    /\ batch = [state |-> "running", err |-> Nil]
    /\ IdleLSys /\ IdleDraw /\ IdleXf

InLoop == batch.state = "running" /\ fi <= Len(fractals)

\* line 109: the line printed before the renders of a fractal
Header(f) == <<"== ", f.Name, " == Angle: ", f.Angle, ", Axiom: ", f.Axiom, ", Rules: ", f.Rules>>

\* what lines 109-114 do with the outcome r of the vector render; the
\* header line goes out before it
AfterVector(r) ==
    /\ renders' = Append(renders, [r EXCEPT !.printed = <<Header(fractals[fi])>> \o @])
    /\ IF r.panic THEN batch' = [state |-> "panic", err |-> Nil] /\ phase' = phase
       ELSE IF AbortsBatch(r.err)
       THEN batch' = [state |-> "returned", err |-> r.err] /\ phase' = phase
       ELSE batch' = batch /\ phase' = "raster"

\* lines 109-114: the vector render of fractal fi
RenderVector ==
    /\ InLoop /\ phase = "vector"
    /\ \E io \in IoOutcomes :
           AfterVector(RenderLsys(fractals[fi], ColorBLACK, Rect1024, TRUE, io))
    /\ UNCHANGED <<fractals, fi, varsLSys, varsDraw, varsXf>>

\* what lines 115-119 do with the outcome r of the raster render
AfterRaster(r) ==
    /\ renders' = Append(renders, r)
    /\ IF r.panic
       THEN batch' = [state |-> "panic", err |-> Nil] /\ phase' = phase /\ fi' = fi
       ELSE IF AbortsBatch(r.err)
       THEN batch' = [state |-> "returned", err |-> r.err] /\ phase' = phase /\ fi' = fi
       ELSE batch' = batch /\ phase' = "vector" /\ fi' = fi + 1

\* lines 115-118: the raster render of fractal fi
RenderRaster ==
    /\ InLoop /\ phase = "raster"
    /\ \E io \in IoOutcomes :
           AfterRaster(RenderLsys(fractals[fi], ColorBLACK, Rect1024, FALSE, io))
    /\ UNCHANGED <<fractals, varsLSys, varsDraw, varsXf>>

\* line 120
BatchReturn ==
    /\ batch.state = "running" /\ fi > Len(fractals)
    /\ batch' = [state |-> "returned", err |-> Nil]
    /\ UNCHANGED <<fractals, fi, phase, renders, varsLSys, varsDraw, varsXf>>

NextRender ==
    \/ RenderVector
    \/ RenderRaster
    \/ BatchReturn

SpecRender == InitRender /\ [][NextRender]_vars

---------------------------------------------------------------------------
(* Properties of the render drivers (SpecRender) *)

\* where the log of render r holds an operation of the set names
Places(r, names) == {k \in 1..Len(r.ops) : r.ops[k].op \in names}

Emitting == {"DrawToImage", "DrawToSvg"}

\* C7: every render works on a Drawing that starts empty; it flips and
\* centers it at most once each; and whenever it rasterizes lines or emits
\* markup, Flip(true) and then CenterWithMargin(target, {0.1, 0.1}) came
\* before, in that order.  A render that returns without error has emitted.
C7_FlipThenCenterOnce ==
    \A n \in 1..Len(renders) :
        LET r == renders[n]
        IN  /\ r.start = EmptyDrawing
            /\ Cardinality(Places(r, {"Flip"})) <= 1
            /\ Cardinality(Places(r, {"CenterWithMargin"})) <= 1
            /\ \A k \in Places(r, Emitting) :
                   \E i \in Places(r, {"Flip"}), j \in Places(r, {"CenterWithMargin"}) :
                       /\ i < j /\ j < k
                       /\ r.ops[i].args = <<TRUE>>
                       /\ r.ops[j].args = <<RectBounds(r.rect), Margin10>>
            /\ (~r.panic /\ r.err = Nil) => Places(r, Emitting) # {}

C7_Witness ==
    /\ Len(renders) >= 2
    /\ renders[1].vector /\ ~renders[2].vector
    /\ \A n \in 1..2 : /\ ~renders[n].panic /\ renders[n].err = Nil
                       /\ Places(renders[n], Emitting) # {}
                       /\ Len(renders[n].drawing) >= 1

Failed(r) == r.err # Nil \/ r.panic

=============================================================================
